---- MODULE Spec2Model ----
(***************************************************************************)
(* A model of the BayerImageProcessor tools: the region shifter            *)
(* (shiftRightImage.py), the repair step of detectAndFixShift.py, the      *)
(* byte-range differ (diffBinImage.py) and the frame load of               *)
(* BayerImageProcessor.py / main.py.                                       *)
(*                                                                         *)
(* Buffers are sequences of bytes; the code's 0-based index i is the       *)
(* sequence's position i + 1.  Each program is one specification over the  *)
(* same variables; prog says which program the behaviour runs.             *)
(***************************************************************************)
EXTENDS Integers, Sequences, FiniteSets, TLC

VARIABLES
    prog,         \* which program runs
    pc,           \* its position
    img_width,    \* geometry of the call
    img_height,
    buf,          \* the in-memory buffer handed to shift_image_region_numpy
    file,         \* the content of the file on disk (img_file, bin_path, filename_in)
    orig,         \* history: the buffer or file content before the call
    entry,        \* which entry point was called
    shift_count,  \* arguments of the last call
    start_row,
    start_col,
    oserror,      \* whether os.path.getsize raised OSError in the last call
    ret,          \* how the call ended: [kind, code]
    stdout,       \* what the program printed, in order
    f1, f2,       \* diffBinImage: the two streams
    fpos1, fpos2, \*   their read offsets
    pos,          \*   the loop's byte counter
    diff_start,   \*   <<>> for None, <<n>> for n
    raw,          \* process_bin_file: the normalized flat buffer
    mode,         \*   its mode argument
    headerfooter, \*   its headerfooter argument
    outputs,      \*   the files it wrote
    good,         \* detectAndFixShift: the frame before the byte was dropped
    dropped,      \*   the index of the dropped byte
    patch,        \*   the patch argument
    scores,       \*   the patch scores, in scan order
    positions,    \*   the patch offsets, in scan order
    best_idx,     \*   the break index
    fixed,        \*   the corrected buffer written to filename_out
    calls,        \* the shift counts of the successful shifts of buf, in order
    start_button, \* GUI.py: the state of each tab's start button
    status_label, \*   the text of each tab's status label
    workers       \*   the live worker threads of each tab

vars == <<prog, pc, img_width, img_height, buf, file, orig, entry, shift_count,
          start_row, start_col, oserror, ret, stdout, f1, f2, fpos1, fpos2, pos,
          diff_start, raw, mode, headerfooter, outputs, good, dropped, patch,
          scores, positions, best_idx, fixed, calls, start_button,
          status_label, workers>>

shiftVars == <<img_width, img_height, buf, file, orig, entry, shift_count,
               start_row, start_col, oserror>>
diffVars == <<f1, f2, fpos1, fpos2, pos, diff_start>>
loadVars == <<raw, mode, headerfooter, outputs>>
fixVars == <<good, dropped, patch, scores, positions, best_idx, fixed>>
composeVars == <<calls>>
guiVars == <<start_button, status_label, workers>>

----------------------------------------------------------------------------
(* Bounds of the model. *)

\* largest img_width and img_height of a shifter call
MaxWidth == 3
MaxHeight == 3
\* buffers up to this length are drawn from every sequence over EnumBytes
MaxEnumLen == 4
\* longest stream handed to diffBinImage, the spec's examples aside
MaxStreamLen == 4
\* frame geometry of the load: the model's stand-in for the 4096 x 4098 frame
\* that BayerImageProcessor.py and main.py fix; widths start at HeaderLen
MaxLoadWidth == 12
MaxLoadHeight == 4
\* largest width and height of a frame handed to detect_and_fix_shift
MaxFixWidth == 5
MaxFixHeight == 5
\* patch scores are drawn from 0..MaxScore
MaxScore == 2
MaxDetWidth == 7
MaxDetHeight == 5
MaxCalls == 2
MaxThreads == 2

----------------------------------------------------------------------------
(* Python and numpy helpers. *)

Min(a, b) == IF a < b THEN a ELSE b
Max(a, b) == IF a > b THEN a ELSE b

\* a slice bound i of a sequence of length n, as Python normalizes it
Norm(i, n) == IF i < 0 THEN Max(0, i + n) ELSE Min(i, n)

\* s[a:b]
PySlice(s, a, b) ==
    LET lo == Norm(a, Len(s))
        hi == Norm(b, Len(s))
    IN  IF hi <= lo THEN << >> ELSE SubSeq(s, lo + 1, hi)

\* s[a:b] = v for an array s and an array v of the slice's length
AssignSlice(s, a, b, v) ==
    LET lo == Norm(a, Len(s))
        hi == Norm(b, Len(s))
    IN  [i \in 1..Len(s) |-> IF lo < i /\ i <= hi THEN v[i - lo] ELSE s[i]]

\* s[a:b] = c for an array s and a scalar c
FillSlice(s, a, b, c) ==
    LET lo == Norm(a, Len(s))
        hi == Norm(b, Len(s))
    IN  [i \in 1..Len(s) |-> IF lo < i /\ i <= hi THEN c ELSE s[i]]

\* the array b after its view b[offset:] has been given the content region
WriteView(b, offset, region) ==
    [i \in 1..Len(b) |-> IF i > offset THEN region[i - offset] ELSE b[i]]

NoReturn == [kind |-> "none", code |-> 0]
Return(c) == [kind |-> "return", code |-> c]
Raise(e) == [kind |-> e, code |-> 0]
\* a function without a return statement has ended
ReturnNone == [kind |-> "return_none", code |-> 0]

Msg(t, x, y) == [tag |-> t, a |-> x, b |-> y]

----------------------------------------------------------------------------
(* Input buffers: every sequence over EnumBytes up to MaxEnumLen, and four *)
(* patterns of every length.                                               *)

EnumBytes == {0, 255}

Patterns == {"ramp", "zeros", "ones", "mixed"}

PatternByte(k, i) ==
    CASE k = "ramp"  -> (i + 1) % 256
      [] k = "zeros" -> 0
      [] k = "ones"  -> 255
      [] k = "mixed" -> IF i % 3 = 1 THEN 0 ELSE (7 * i + 3) % 256

Frames(n) ==
    {[i \in 1..n |-> PatternByte(k, i - 1)] : k \in Patterns}
        \cup (IF n <= MaxEnumLen THEN [1..n -> EnumBytes] ELSE {})

\* the programs run from the command line open no window
NoGui ==
    /\ start_button = << >>
    /\ status_label = << >>
    /\ workers = << >>

----------------------------------------------------------------------------
(* shiftRightImage.py *)

\* ShiftRegion without line 62, the zero fill
ShiftRegionNoFill(b, offset, sc) ==
    LET region == PySlice(b, offset, Len(b))
        moved == AssignSlice(region, sc, Len(region), PySlice(region, 0, -sc))
    IN  WriteView(b, offset, moved)

\* ShiftRegion with line 60 taking the region one byte early
ShiftRegionEarly(b, offset, sc) ==
    LET start == Max(offset - 1, 0)
        region == PySlice(b, start, Len(b))
        moved == AssignSlice(region, sc, Len(region), PySlice(region, 0, -sc))
        zeroed == FillSlice(moved, 0, sc, 0)
    IN  WriteView(b, start, zeroed)

\* ShiftRegion with line 62 zeroing the first byte of the region only
ShiftRegionFillOne(b, offset, sc) ==
    LET region == PySlice(b, offset, Len(b))
        moved == AssignSlice(region, sc, Len(region), PySlice(region, 0, -sc))
        zeroed == FillSlice(moved, 0, 1, 0)
    IN  WriteView(b, offset, zeroed)

\* lines 60-62: region = img.ravel()[offset:]; region[shift_count:] =
\* region[:-shift_count]; region[:shift_count] = 0
ShiftRegion(b, offset, sc) ==
    LET region == PySlice(b, offset, Len(b))
        moved == AssignSlice(region, sc, Len(region), PySlice(region, 0, -sc))
        zeroed == FillSlice(moved, 0, sc, 0)
    IN  WriteView(b, offset, zeroed)

\* line 36 (and 68)
BadShiftCount(sc) == sc < 1

\* line 40 (and 72)
BadStart(sr, scol, w, h) == sr < 0 \/ sr >= h \/ scol < 0 \/ scol >= w

\* line 50 refusing the last byte of the frame as well
BadOffsetLastByte(offset, total_pixels) ==
    offset < 0 \/ offset >= total_pixels - 1

\* line 50
BadOffset(offset, total_pixels) == offset < 0 \/ offset >= total_pixels

\* line 55 with >= for >
BadRegionCountOffByOne(sc, region_size) == sc < 1 \/ sc >= region_size

\* line 55
BadRegionCount(sc, region_size) == sc < 1 \/ sc > region_size

\* shift_image_region_numpy with the zero fill done before line 55's check
ShiftImageRegionNumpyFillFirst(b, w, h, sc, sr, scol) ==
    IF BadShiftCount(sc)
    THEN [ret |-> Return(1), buf |-> b,
          out |-> <<Msg("Invalid shift_count", sc, 0)>>]
    ELSE IF BadStart(sr, scol, w, h)
    THEN [ret |-> Return(1), buf |-> b,
          out |-> <<Msg("Invalid start_row/start_col", sr, scol)>>]
    ELSE IF Len(b) # h * w
    THEN [ret |-> Raise("ValueError"), buf |-> b, out |-> << >>]
    ELSE LET offset == sr * w + scol
             total_pixels == w * h
             region_size == total_pixels - offset
         IN  IF BadOffset(offset, total_pixels)
             THEN [ret |-> Return(1), buf |-> b,
                   out |-> <<Msg("Invalid offset", offset, 0)>>]
             ELSE IF BadRegionCount(sc, region_size)
             THEN [ret |-> Return(1),
                   buf |-> FillSlice(b, offset, offset + sc, 0),
                   out |-> <<Msg("Invalid shift_count for region size", sc, region_size)>>]
             ELSE [ret |-> Return(0), buf |-> ShiftRegion(b, offset, sc),
                   out |-> << >>]

\* shift_image_region_numpy: what it returns or raises, the buffer after it and
\* what it printed
ShiftImageRegionNumpy(b, w, h, sc, sr, scol) ==
    IF BadShiftCount(sc)
    THEN [ret |-> Return(1), buf |-> b,
          out |-> <<Msg("Invalid shift_count", sc, 0)>>]
    ELSE IF BadStart(sr, scol, w, h)
    THEN [ret |-> Return(1), buf |-> b,
          out |-> <<Msg("Invalid start_row/start_col", sr, scol)>>]
    ELSE IF Len(b) # h * w
    THEN [ret |-> Raise("ValueError"), buf |-> b, out |-> << >>]
    ELSE LET offset == sr * w + scol
             total_pixels == w * h
             region_size == total_pixels - offset
         IN  IF BadOffset(offset, total_pixels)
             THEN [ret |-> Return(1), buf |-> b,
                   out |-> <<Msg("Invalid offset", offset, 0)>>]
             ELSE IF BadRegionCount(sc, region_size)
             THEN [ret |-> Return(1), buf |-> b,
                   out |-> <<Msg("Invalid shift_count for region size", sc, region_size)>>]
             ELSE [ret |-> Return(0), buf |-> ShiftRegion(b, offset, sc),
                   out |-> << >>]

\* shift_right_image_file on a file of content f; missing says that
\* os.path.getsize raised OSError (the file is missing)
ShiftRightImageFile(f, missing, sc, sr, scol, w, h) ==
    IF BadShiftCount(sc)
    THEN [ret |-> Return(1), file |-> f,
          out |-> <<Msg("Invalid shift_count", sc, 0)>>]
    ELSE IF BadStart(sr, scol, w, h)
    THEN [ret |-> Return(1), file |-> f,
          out |-> <<Msg("Invalid start_row/start_col", sr, scol)>>]
    ELSE IF missing
    THEN [ret |-> Return(1), file |-> f,
          out |-> <<Msg("Could not open file", 0, 0)>>]
    ELSE IF Len(f) # w * h
    THEN [ret |-> Return(1), file |-> f,
          out |-> <<Msg("Incorrect file size", Len(f), w * h)>>]
    ELSE LET r == ShiftImageRegionNumpy(f, w, h, sc, sr, scol)
         IN  IF r.ret.kind # "return"
             THEN [ret |-> Return(1), file |-> f,
                   out |-> r.out \o <<Msg("Exception occurred", 0, 0)>>]
             ELSE IF r.ret.code # 0
             THEN [ret |-> Return(r.ret.code), file |-> f,
                   out |-> r.out \o <<Msg("shiftImageRegion failed", r.ret.code, 0)>>]
             ELSE [ret |-> Return(0), file |-> r.buf,
                   out |-> <<Msg("Successfully shifted", 0, 0)>>]

Geometries == (0..MaxWidth) \X (0..MaxHeight)

\* buffer lengths tried for a geometry: the exact one, one short, one long
Lengths(w, h) == {n \in {w * h - 1, w * h, w * h + 1} : n >= 0}

ShiftCounts(w, h) == -1..(w * h + 1)
StartRows(h) == -1..h
StartCols(w) == -1..w

InitShift ==
    /\ prog = "shiftRightImage"
    /\ pc = "ready"
    /\ \E g \in Geometries :
          /\ img_width = g[1]
          /\ img_height = g[2]
          /\ \E n \in Lengths(g[1], g[2]) : buf \in Frames(n)
    /\ file = buf
    /\ orig = buf
    /\ entry = "none"
    /\ shift_count = 0 /\ start_row = 0 /\ start_col = 0
    /\ oserror = FALSE
    /\ ret = NoReturn
    /\ stdout = << >>
    /\ f1 = << >> /\ f2 = << >> /\ fpos1 = 0 /\ fpos2 = 0 /\ pos = 0
    /\ diff_start = << >>
    /\ raw = << >> /\ mode = "none" /\ headerfooter = FALSE /\ outputs = {}
    /\ good = << >> /\ dropped = 0 /\ patch = 0
    /\ scores = << >> /\ positions = << >> /\ best_idx = 0 /\ fixed = << >>
    /\ calls = << >>
    /\ NoGui

\* a call of shift_image_region_numpy on buf
CallShiftImageRegionNumpy ==
    /\ prog = "shiftRightImage" /\ pc = "ready"
    /\ \E sc \in ShiftCounts(img_width, img_height),
          sr \in StartRows(img_height), scol \in StartCols(img_width) :
          LET r == ShiftImageRegionNumpy(buf, img_width, img_height, sc, sr, scol)
          IN  /\ shift_count' = sc /\ start_row' = sr /\ start_col' = scol
              /\ orig' = buf
              /\ buf' = r.buf
              /\ ret' = r.ret
              /\ stdout' = stdout \o r.out
    /\ entry' = "shift_image_region_numpy"
    /\ pc' = "done"
    /\ oserror' = FALSE
    /\ UNCHANGED <<prog, img_width, img_height, file>>
    /\ UNCHANGED <<diffVars, loadVars, fixVars>>
    /\ UNCHANGED composeVars
    /\ UNCHANGED guiVars

\* a call of shift_right_image_file on file
CallShiftRightImageFile ==
    /\ prog = "shiftRightImage" /\ pc = "ready"
    /\ \E sc \in ShiftCounts(img_width, img_height),
          sr \in StartRows(img_height), scol \in StartCols(img_width),
          missing \in BOOLEAN :
          LET r == ShiftRightImageFile(file, missing, sc, sr, scol,
                                       img_width, img_height)
          IN  /\ shift_count' = sc /\ start_row' = sr /\ start_col' = scol
              /\ oserror' = (missing /\ ~BadShiftCount(sc)
                                /\ ~BadStart(sr, scol, img_width, img_height))
              /\ orig' = file
              /\ file' = r.file
              /\ ret' = r.ret
              /\ stdout' = stdout \o r.out
    /\ entry' = "shift_right_image_file"
    /\ pc' = "done"
    /\ UNCHANGED <<prog, img_width, img_height, buf>>
    /\ UNCHANGED <<diffVars, loadVars, fixVars>>
    /\ UNCHANGED composeVars
    /\ UNCHANGED guiVars

NextShift == CallShiftImageRegionNumpy \/ CallShiftRightImageFile

SpecShift == InitShift /\ [][NextShift]_vars

----------------------------------------------------------------------------
(* diffBinImage.py *)

\* f.read(1) at offset fp: one byte, or b"" at the end of the file
Read1(f, fp) == PySlice(f, fp, fp + 1)

\* f.read() at offset fp: the rest of the file
ReadRest(f, fp) == PySlice(f, fp, Len(f))

\* lines 45 and 53 printing p for pos - 1
RangeMsgOffByOne(ds, p) == Msg("Difference", ds[1], p)

\* lines 45 and 53: print(f"Difference from byte {diff_start} to {pos - 1}")
RangeMsg(ds, p) == Msg("Difference", ds[1], p - 1)

\* LoopBody without line 54, diff_start = None
LoopBodyNoReset(b1, b2, p, ds) ==
    IF b1 = << >> /\ b2 = << >>
    THEN [brk |-> TRUE, pos |-> p, diff_start |-> ds,
          out |-> IF ds # << >> THEN <<RangeMsg(ds, p)>> ELSE << >>]
    ELSE IF b1 # b2
    THEN [brk |-> FALSE, pos |-> p + 1,
          diff_start |-> IF ds = << >> THEN <<p>> ELSE ds,
          out |-> << >>]
    ELSE [brk |-> FALSE, pos |-> p + 1,
          diff_start |-> ds,
          out |-> IF ds # << >> THEN <<RangeMsg(ds, p)>> ELSE << >>]

\* LoopBody breaking as soon as either read is empty
LoopBodyBreakOnEither(b1, b2, p, ds) ==
    IF b1 = << >> \/ b2 = << >>
    THEN [brk |-> TRUE, pos |-> p, diff_start |-> ds,
          out |-> IF ds # << >> THEN <<RangeMsg(ds, p)>> ELSE << >>]
    ELSE IF b1 # b2
    THEN [brk |-> FALSE, pos |-> p + 1,
          diff_start |-> IF ds = << >> THEN <<p>> ELSE ds,
          out |-> << >>]
    ELSE [brk |-> FALSE, pos |-> p + 1,
          diff_start |-> IF ds # << >> THEN << >> ELSE ds,
          out |-> IF ds # << >> THEN <<RangeMsg(ds, p)>> ELSE << >>]

\* lines 43-56, one iteration of the loop on the bytes b1 and b2 just read:
\* whether it breaks, pos and diff_start after it, and what it printed
LoopBody(b1, b2, p, ds) ==
    IF b1 = << >> /\ b2 = << >>
    THEN [brk |-> TRUE, pos |-> p, diff_start |-> ds,
          out |-> IF ds # << >> THEN <<RangeMsg(ds, p)>> ELSE << >>]
    ELSE IF b1 # b2
    THEN [brk |-> FALSE, pos |-> p + 1,
          diff_start |-> IF ds = << >> THEN <<p>> ELSE ds,
          out |-> << >>]
    ELSE [brk |-> FALSE, pos |-> p + 1,
          diff_start |-> IF ds # << >> THEN << >> ELSE ds,
          out |-> IF ds # << >> THEN <<RangeMsg(ds, p)>> ELSE << >>]

\* lines 59-64: what is printed after the loop for the rests extra1, extra2
LongerMsg(extra1, extra2, p) ==
    IF extra1 # << >> THEN <<Msg("file1 is longer", p, 0)>>
    ELSE IF extra2 # << >> THEN <<Msg("file2 is longer", p, 0)>>
    ELSE << >>

DiffBytes == {1, 9}

SeqsUpTo(S, n) == UNION {[1..k -> S] : k \in 0..n}

\* the streams of the spec's examples: [1,2,3,4] against [1,9,9,4], two
\* identical 10-byte streams, and a stream with 5 extra trailing bytes
ExampleStreams ==
    { << <<1, 2, 3, 4>>, <<1, 9, 9, 4>> >>,
      << <<1, 2, 3, 4, 5, 6, 7, 8, 9, 10>>, <<1, 2, 3, 4, 5, 6, 7, 8, 9, 10>> >>,
      << <<1, 2, 3, 4, 5, 6, 7, 8>>, <<1, 2, 3>> >> }

StreamPairs ==
    (SeqsUpTo(DiffBytes, MaxStreamLen) \X SeqsUpTo(DiffBytes, MaxStreamLen))
        \cup ExampleStreams

InitDiff ==
    /\ prog = "diffBinImage"
    /\ pc = "loop"
    /\ \E sp \in StreamPairs : f1 = sp[1] /\ f2 = sp[2]
    /\ fpos1 = 0 /\ fpos2 = 0 /\ pos = 0
    /\ diff_start = << >>
    /\ stdout = << >>
    /\ ret = NoReturn
    /\ img_width = 0 /\ img_height = 0
    /\ buf = << >> /\ file = << >> /\ orig = << >>
    /\ entry = "none"
    /\ shift_count = 0 /\ start_row = 0 /\ start_col = 0
    /\ oserror = FALSE
    /\ raw = << >> /\ mode = "none" /\ headerfooter = FALSE /\ outputs = {}
    /\ good = << >> /\ dropped = 0 /\ patch = 0
    /\ scores = << >> /\ positions = << >> /\ best_idx = 0 /\ fixed = << >>
    /\ calls = << >>
    /\ NoGui

\* lines 39-56: one iteration of while True
DiffLoop ==
    /\ prog = "diffBinImage" /\ pc = "loop"
    /\ LET b1 == Read1(f1, fpos1)
           b2 == Read1(f2, fpos2)
           r == LoopBody(b1, b2, pos, diff_start)
       IN  /\ fpos1' = fpos1 + Len(b1)
           /\ fpos2' = fpos2 + Len(b2)
           /\ pos' = r.pos
           /\ diff_start' = r.diff_start
           /\ stdout' = stdout \o r.out
           /\ pc' = IF r.brk THEN "tail" ELSE "loop"
    /\ UNCHANGED <<prog, f1, f2, ret>>
    /\ UNCHANGED <<shiftVars, loadVars, fixVars>>
    /\ UNCHANGED composeVars
    /\ UNCHANGED guiVars

\* lines 58-64: after the loop
DiffTail ==
    /\ prog = "diffBinImage" /\ pc = "tail"
    /\ LET extra1 == ReadRest(f1, fpos1)
           extra2 == ReadRest(f2, fpos2)
       IN  /\ fpos1' = fpos1 + Len(extra1)
           /\ fpos2' = fpos2 + Len(extra2)
           /\ stdout' = stdout \o LongerMsg(extra1, extra2, pos)
    /\ pc' = "done"
    /\ UNCHANGED <<prog, f1, f2, pos, diff_start, ret>>
    /\ UNCHANGED <<shiftVars, loadVars, fixVars>>
    /\ UNCHANGED composeVars
    /\ UNCHANGED guiVars

NextDiff == DiffLoop \/ DiffTail

SpecDiff == InitDiff /\ [][NextDiff]_vars

----------------------------------------------------------------------------
(* BayerImageProcessor.py and main.py: the frame load *)

\* header_bytes = raw[0, :11]
HeaderLen == 11
\* footer_bytes = raw[-1, :66]
FooterLen == 66

\* LoadRaw without the padding branch
LoadRawNoPad(data, expected_size) ==
    IF Len(data) > expected_size THEN PySlice(data, 0, expected_size) ELSE data

\* LoadRaw truncating one byte early and padding the frame back
LoadRawShortCut(data, expected_size) ==
    IF Len(data) < expected_size
    THEN data \o [i \in 1..(expected_size - Len(data)) |-> 0]
    ELSE IF Len(data) > expected_size
    THEN PySlice(data, 0, expected_size - 1) \o <<0>>
    ELSE data

\* lines 78-83: np.pad(raw, (0, expected_size - raw.size), 'constant') for a
\* short input, raw[:expected_size] for a long one
LoadRaw(data, expected_size) ==
    IF Len(data) < expected_size
    THEN data \o [i \in 1..(expected_size - Len(data)) |-> 0]
    ELSE IF Len(data) > expected_size
    THEN PySlice(data, 0, expected_size)
    ELSE data

\* raw.reshape((h, w))[r, :n], flat
RowPrefix(r2, w, r, n) == PySlice(r2, r * w, r * w + Min(n, w))

\* raw[1:, :], the payload with the footer row left in
RawImageWithFooter(r2, w, h) == PySlice(r2, w, h * w)

\* raw_image = raw[1:4097, :], the rows 1..h-2 of the h x w frame, flat
RawImage(r2, w, h) == PySlice(r2, w, (h - 1) * w)

\* int.from_bytes(bs, byteorder='big')
IntFromBytesBig(bs) ==
    IF Len(bs) = 0 THEN 0
    ELSE IF Len(bs) = 1 THEN bs[1]
    ELSE 256 * bs[1] + bs[2]

\* line 68: int.from_bytes(header_bytes[9:11], byteorder='little'), for the
\* slice bs of at most two bytes
IntFromBytesLittle(bs) ==
    IF Len(bs) = 0 THEN 0
    ELSE IF Len(bs) = 1 THEN bs[1]
    ELSE bs[1] + 256 * bs[2]

\* lines 69-70: integration_time * 0.0104 as f"{integration_time_ms:.3f}"
\* prints it: the nearest thousandth of t * 104 / 10000 (t * 104 is even, so
\* no value lies half way), as the digits before and after the point
Fixed3Ms(t) ==
    LET th == (t * 104 + 5) \div 10
    IN  [units |-> th \div 1000, thousandths |-> th % 1000]

\* what write_header_footer_to_file writes: raw[0, :11] and raw[-1, :66],
\* the analog gain (byte 8) and the integration time (bytes 9 and 10)
HeaderFooter(r2, w, h) ==
    LET header_bytes == RowPrefix(r2, w, 0, HeaderLen)
        integration_time == IntFromBytesLittle(PySlice(header_bytes, 9, 11))
    IN  [header |-> header_bytes,
         footer |-> RowPrefix(r2, w, h - 1, FooterLen),
         analog_gain |-> header_bytes[8 + 1],
         integration_time |-> integration_time,
         integration_time_ms |-> Fixed3Ms(integration_time)]

NoBytes ==
    [header |-> << >>, footer |-> << >>, analog_gain |-> 0,
     integration_time |-> 0, integration_time_ms |-> Fixed3Ms(0)]

OutFile(n, d, t) == [name |-> n, data |-> d, text |-> t]

\* the files one frame gives: the raw PNG, the colorized PNG (the demosaic of
\* raw_image handed to the encoder) and the header/footer text
FrameOutputs(r2, w, h, m, hf) ==
    (IF m \in {"normal", "both"}
        THEN {OutFile("png", RawImage(r2, w, h), NoBytes)} ELSE {})
    \cup (IF m \in {"colorize", "both"}
        THEN {OutFile("colorize.png", RawImage(r2, w, h), NoBytes)} ELSE {})
    \cup (IF hf
        THEN {OutFile("header_footer.txt", << >>, HeaderFooter(r2, w, h))}
        ELSE {})

\* process_bin_file (both copies) and one file of process_series_bin_files:
\* the normalized buffer, the files written, what is printed and returned
ProcessBinFile(e, data, w, h, m, hf) ==
    LET r2 == LoadRaw(data, h * w)
    IN  [raw |-> r2,
         outputs |-> FrameOutputs(r2, w, h, m, hf),
         out |-> IF e = "process_series_bin_files"
                 THEN <<Msg("Processing image", 1, 1)>> ELSE << >>,
         ret |-> ReturnNone]

\* the code fixes the frame at 4098 rows of 4096 bytes; the model takes
\* narrow frames and one whose rows are longer than the footer
LoadGeometries ==
    ((HeaderLen..MaxLoadWidth) \X (3..MaxLoadHeight))
        \cup {<<FooterLen + 1, 3>>}

\* input lengths: from the empty file to two bytes more than the frame
LoadLengths(w, h) == 0..(w * h + 2)

Modes == {"normal", "colorize", "both", "none"}

\* header fields tried: analog gain, low and high byte of the integration time
GainSamples == {0, 16, 255}
LowSamples == {0, 100, 255}
HighSamples == {0, 1, 255}

\* the ramp frame of n bytes with every sample of the three header fields
HeaderFrames(n) ==
    {[i \in 1..n |-> CASE i = 9 -> g [] i = 10 -> lo [] i = 11 -> hi
                        [] OTHER -> PatternByte("ramp", i - 1)] :
        g \in GainSamples, lo \in LowSamples, hi \in HighSamples}

InitLoad ==
    /\ prog = "BayerImageProcessor"
    /\ pc = "ready"
    /\ \E g \in LoadGeometries :
          /\ img_width = g[1]
          /\ img_height = g[2]
          /\ \/ \E n \in LoadLengths(g[1], g[2]) : file \in Frames(n)
             \/ file \in HeaderFrames(g[1] * g[2])
    /\ mode \in Modes
    /\ headerfooter \in BOOLEAN
    /\ raw = << >> /\ outputs = {}
    /\ entry = "none"
    /\ ret = NoReturn
    /\ stdout = << >>
    /\ buf = << >> /\ orig = << >>
    /\ shift_count = 0 /\ start_row = 0 /\ start_col = 0
    /\ oserror = FALSE
    /\ f1 = << >> /\ f2 = << >> /\ fpos1 = 0 /\ fpos2 = 0 /\ pos = 0
    /\ diff_start = << >>
    /\ good = << >> /\ dropped = 0 /\ patch = 0
    /\ scores = << >> /\ positions = << >> /\ best_idx = 0 /\ fixed = << >>
    /\ calls = << >>
    /\ NoGui

CallLoad(e) ==
    /\ prog = "BayerImageProcessor" /\ pc = "ready"
    /\ LET r == ProcessBinFile(e, file, img_width, img_height, mode, headerfooter)
       IN  /\ raw' = r.raw
           /\ outputs' = r.outputs
           /\ stdout' = stdout \o r.out
           /\ ret' = r.ret
    /\ entry' = e
    /\ pc' = "done"
    /\ UNCHANGED <<prog, img_width, img_height, buf, file, orig, shift_count,
                   start_row, start_col, oserror, mode, headerfooter>>
    /\ UNCHANGED <<diffVars, fixVars>>
    /\ UNCHANGED composeVars
    /\ UNCHANGED guiVars

\* BayerImageProcessor.py process_bin_file
CallProcessBinFile == CallLoad("process_bin_file")

\* main.py process_bin_file
CallMainProcessBinFile == CallLoad("main.process_bin_file")

\* BayerImageProcessor.py process_series_bin_files, for a series of one file
CallProcessSeriesBinFiles == CallLoad("process_series_bin_files")

NextLoad ==
    CallProcessBinFile \/ CallMainProcessBinFile \/ CallProcessSeriesBinFiles

SpecLoad == InitLoad /\ [][NextLoad]_vars

----------------------------------------------------------------------------
(* detectAndFixShift.py *)

Abs(x) == IF x < 0 THEN -x ELSE x

\* range(start, stop, step) for step > 0, as a sequence
Range(start, stop, step) ==
    LET n == IF stop <= start THEN 0 ELSE (stop - start + step - 1) \div step
    IN  [i \in 1..n |-> start + (i - 1) * step]

\* lines 44-55: positions, row * width + col of every patch in scan order
Positions(w, h, p) ==
    LET rows == Range(0, h - p, p)
        cols == Range(0, w - p, p)
        nc == Len(cols)
    IN  IF nc = 0 THEN << >>
        ELSE [k \in 1..(Len(rows) * nc) |->
                 rows[((k - 1) \div nc) + 1] * w + cols[((k - 1) % nc) + 1]]

\* line 58: np.abs(np.diff(scores))
Diffs(sc) == [i \in 1..(Len(sc) - 1) |-> Abs(sc[i + 1] - sc[i])]

\* the last index of the largest element
ArgMaxLast(d) ==
    CHOOSE i \in 0..(Len(d) - 1) :
        /\ \A j \in 0..(Len(d) - 1) : d[j + 1] <= d[i + 1]
        /\ \A j \in (i + 1)..(Len(d) - 1) : d[j + 1] < d[i + 1]

\* np.argmax of a non-empty array: the first index of its largest element
ArgMax(d) ==
    CHOOSE i \in 0..(Len(d) - 1) :
        /\ \A j \in 0..(Len(d) - 1) : d[j + 1] <= d[i + 1]
        /\ \A j \in 0..(i - 1) : d[j + 1] < d[i + 1]

\* Repair copying raw_flat[best_idx+1:] for raw_flat[best_idx:-1]
RepairNoShift(raw_flat, bi) ==
    LET moved == AssignSlice(raw_flat, bi + 1, Len(raw_flat),
                             PySlice(raw_flat, bi + 1, Len(raw_flat)))
    IN  [moved EXCEPT ![bi + 1] = 0]

\* Repair without line 69, the zero at best_idx
RepairNoZero(raw_flat, bi) ==
    AssignSlice(raw_flat, bi + 1, Len(raw_flat), PySlice(raw_flat, bi, -1))

\* lines 65-69: fixed = np.copy(raw_flat); fixed[best_idx+1:] =
\* raw_flat[best_idx:-1]; fixed[best_idx] = 0
Repair(raw_flat, bi) ==
    LET moved == AssignSlice(raw_flat, bi + 1, Len(raw_flat),
                             PySlice(raw_flat, bi, -1))
    IN  [moved EXCEPT ![bi + 1] = 0]

\* the size check accepting files longer than the frame
SizeMismatchShortOnly(data, w, h) == Len(data) < w * h

\* line 35: raw.size != expected_size
SizeMismatch(data, w, h) == Len(data) # w * h

\* line 36: the ValueError raised on a size mismatch
SizeError == Raise("ValueError: File size does not match expected")

\* line 61: the ValueError of np.argmax on an empty array
ArgMaxError == Raise("ValueError: attempt to get argmax of an empty sequence")

\* BreakIndex taking the later patch of the pair
BreakIndexSuccessor(ps, sc) == ps[ArgMax(Diffs(sc)) + 2]

\* line 61: best_idx = positions[np.argmax(diffs)]
BreakIndex(ps, sc) == ps[ArgMax(Diffs(sc)) + 1]

\* DetectAndFixShift taking index 0 as the break when there is no diff
DetectAndFixShiftDefaultZero(data, w, h, p, sc) ==
    LET ps == Positions(w, h, p)
        none == [positions |-> << >>, scores |-> << >>, best_idx |-> 0,
                 written |-> FALSE, fixed |-> << >>, out |-> << >>]
        bi == IF Len(Diffs(sc)) = 0 THEN 0 ELSE BreakIndex(ps, sc)
    IN  IF SizeMismatch(data, w, h)
        THEN none @@ [ret |-> SizeError]
        ELSE [positions |-> ps, scores |-> sc, best_idx |-> bi,
              written |-> TRUE, fixed |-> Repair(data, bi),
              out |-> <<Msg("Likely missing byte", bi, 0),
                        Msg("Corrected file written", 0, 0)>>,
              ret |-> ReturnNone]

\* detect_and_fix_shift on a file of content data, with sc the scores the
\* demosaic gives the patches, in scan order
DetectAndFixShift(data, w, h, p, sc) ==
    LET ps == Positions(w, h, p)
        none == [positions |-> << >>, scores |-> << >>, best_idx |-> 0,
                 written |-> FALSE, fixed |-> << >>, out |-> << >>]
    IN  IF SizeMismatch(data, w, h)
        THEN none @@ [ret |-> SizeError]
        ELSE IF Len(Diffs(sc)) = 0
        THEN [none EXCEPT !.positions = ps, !.scores = sc]
                 @@ [ret |-> ArgMaxError]
        ELSE LET bi == BreakIndex(ps, sc)
             IN  [positions |-> ps, scores |-> sc, best_idx |-> bi,
                  written |-> TRUE, fixed |-> Repair(data, bi),
                  out |-> <<Msg("Likely missing byte", bi, 0),
                            Msg("Corrected file written", 0, 0)>>,
                  ret |-> ReturnNone]

\* the frame f after the byte at index d is dropped and the frame is padded
\* back to its length with a zero at the end
DropByte(f, d) == PySlice(f, 0, d) \o PySlice(f, d + 1, Len(f)) \o <<0>>

Patches == {2}

FixGeometries == (1..MaxFixWidth) \X (1..MaxFixHeight)

Scores == 0..MaxScore

InitFix ==
    /\ prog = "detectAndFixShift"
    /\ pc = "ready"
    /\ \E g \in FixGeometries :
          /\ img_width = g[1]
          /\ img_height = g[2]
          /\ good \in Frames(g[1] * g[2])
    /\ dropped \in 0..(Len(good) - 1)
    /\ file = DropByte(good, dropped)
    /\ patch \in Patches
    /\ scores = << >> /\ positions = << >> /\ best_idx = 0 /\ fixed = << >>
    /\ entry = "none"
    /\ ret = NoReturn
    /\ stdout = << >>
    /\ buf = << >> /\ orig = file
    /\ shift_count = 0 /\ start_row = 0 /\ start_col = 0
    /\ oserror = FALSE
    /\ f1 = << >> /\ f2 = << >> /\ fpos1 = 0 /\ fpos2 = 0 /\ pos = 0
    /\ diff_start = << >>
    /\ raw = << >> /\ mode = "none" /\ headerfooter = FALSE /\ outputs = {}
    /\ calls = << >>
    /\ NoGui

\* a call of detect_and_fix_shift on file
CallDetectAndFixShift ==
    /\ prog = "detectAndFixShift" /\ pc = "ready"
    /\ \E sc \in [1..Len(Positions(img_width, img_height, patch)) -> Scores] :
          LET r == DetectAndFixShift(file, img_width, img_height, patch, sc)
          IN  /\ scores' = r.scores
              /\ positions' = r.positions
              /\ best_idx' = r.best_idx
              /\ fixed' = r.fixed
              /\ stdout' = stdout \o r.out
              /\ ret' = r.ret
    /\ entry' = "detect_and_fix_shift"
    /\ pc' = "done"
    /\ UNCHANGED <<prog, img_width, img_height, buf, file, orig, shift_count,
                   start_row, start_col, oserror, good, dropped, patch>>
    /\ UNCHANGED <<diffVars, loadVars>>
    /\ UNCHANGED composeVars
    /\ UNCHANGED guiVars

\* the repair at a known break index: shift_right_image_file on file with
\* shift_count = 1 at the row and column of the dropped byte
CallShiftRightAtBreak ==
    /\ prog = "detectAndFixShift" /\ pc = "ready"
    /\ LET sr == dropped \div img_width
           scol == dropped % img_width
           r == ShiftRightImageFile(file, FALSE, 1, sr, scol,
                                    img_width, img_height)
       IN  /\ shift_count' = 1 /\ start_row' = sr /\ start_col' = scol
           /\ file' = r.file
           /\ ret' = r.ret
           /\ stdout' = stdout \o r.out
    /\ entry' = "shift_right_image_file"
    /\ pc' = "done"
    /\ UNCHANGED <<prog, img_width, img_height, buf, orig, oserror>>
    /\ UNCHANGED <<diffVars, loadVars, fixVars>>
    /\ UNCHANGED composeVars
    /\ UNCHANGED guiVars

NextFix == CallDetectAndFixShift \/ CallShiftRightAtBreak

SpecFix == InitFix /\ [][NextFix]_vars

----------------------------------------------------------------------------
(* detectAndFixShift.py on files of any length, with more patch sizes. *)

DetPatches == {2, 3}

DetGeometries == (1..MaxDetWidth) \X (1..MaxDetHeight)

\* files one byte short of the frame, exact, and one byte long
DetLengths(w, h) == {n \in (w * h - 1)..(w * h + 1) : n >= 0}

DetFrames(n) == {[i \in 1..n |-> PatternByte(k, i - 1)] : k \in {"ramp", "mixed"}}

InitDetect ==
    /\ prog = "detectAndFixShift"
    /\ pc = "ready"
    /\ \E g \in DetGeometries :
          /\ img_width = g[1]
          /\ img_height = g[2]
          /\ \E n \in DetLengths(g[1], g[2]) : file \in DetFrames(n)
    /\ good = file /\ dropped = 0
    /\ patch \in DetPatches
    /\ scores = << >> /\ positions = << >> /\ best_idx = 0 /\ fixed = << >>
    /\ entry = "none"
    /\ ret = NoReturn
    /\ stdout = << >>
    /\ buf = << >> /\ orig = file
    /\ shift_count = 0 /\ start_row = 0 /\ start_col = 0
    /\ oserror = FALSE
    /\ f1 = << >> /\ f2 = << >> /\ fpos1 = 0 /\ fpos2 = 0 /\ pos = 0
    /\ diff_start = << >>
    /\ raw = << >> /\ mode = "none" /\ headerfooter = FALSE /\ outputs = {}
    /\ calls = << >>
    /\ NoGui

NextDetect == CallDetectAndFixShift

SpecDetect == InitDetect /\ [][NextDetect]_vars

----------------------------------------------------------------------------
(* shiftRightImage.py: several shifts of one buffer at the same start. *)

InitCompose ==
    /\ prog = "shiftRightImage"
    /\ pc = "ready"
    /\ \E g \in Geometries :
          /\ img_width = g[1]
          /\ img_height = g[2]
          /\ buf \in Frames(g[1] * g[2])
          /\ start_row \in 0..(g[2] - 1)
          /\ start_col \in 0..(g[1] - 1)
    /\ file = buf
    /\ orig = buf
    /\ entry = "none"
    /\ shift_count = 0
    /\ oserror = FALSE
    /\ ret = NoReturn
    /\ stdout = << >>
    /\ calls = << >>
    /\ f1 = << >> /\ f2 = << >> /\ fpos1 = 0 /\ fpos2 = 0 /\ pos = 0
    /\ diff_start = << >>
    /\ raw = << >> /\ mode = "none" /\ headerfooter = FALSE /\ outputs = {}
    /\ good = << >> /\ dropped = 0 /\ patch = 0
    /\ scores = << >> /\ positions = << >> /\ best_idx = 0 /\ fixed = << >>
    /\ NoGui

\* one more call of shift_image_region_numpy on buf, at the same start_row and
\* start_col; the calls stop at the first failure
CallShiftAgain ==
    /\ prog = "shiftRightImage" /\ pc = "ready"
    /\ Len(calls) < MaxCalls
    /\ \E sc \in ShiftCounts(img_width, img_height) :
          LET r == ShiftImageRegionNumpy(buf, img_width, img_height, sc,
                                         start_row, start_col)
              done == IF r.ret = Return(0) THEN Append(calls, sc) ELSE calls
          IN  /\ shift_count' = sc
              /\ buf' = r.buf
              /\ ret' = r.ret
              /\ stdout' = stdout \o r.out
              /\ calls' = done
              /\ pc' = IF r.ret # Return(0) \/ Len(done) = MaxCalls
                           THEN "done" ELSE "ready"
    /\ entry' = "shift_image_region_numpy"
    /\ UNCHANGED <<prog, img_width, img_height, file, orig, start_row,
                   start_col, oserror>>
    /\ UNCHANGED <<diffVars, loadVars, fixVars>>
    /\ UNCHANGED guiVars

NextCompose == CallShiftAgain

SpecCompose == InitCompose /\ [][NextCompose]_vars

----------------------------------------------------------------------------
(* GUI.py: the three tabs, their start buttons and their worker threads. *)

Tabs == {"Binary To PNG", "Shift Right Image", "Detect & Fix Shift"}

\* how process_bayer_images can end in process_all: it returns None, or an
\* exception of the file system or of cv2 leaves it (open() on a listed file
\* that is gone, line 75 of BayerImageProcessor.py)
ConvertOutcomes ==
    {ProcessBinFile("process_bin_file", f, HeaderLen, 3, m, FALSE).ret :
        f \in {<<1, 2, 3>>}, m \in Modes}
        \cup {Raise("OSError")}

\* how lines 261-267 of run_process can end: with the return value of
\* shift_right_image_file, or with the ValueError of int() on a field
ShiftOutcomes ==
    {ShiftRightImageFile(f, missing, sc, 0, 0, 2, 2).ret :
        f \in {<<1, 2, 3, 4>>}, missing \in BOOLEAN, sc \in {1, 2}}
        \cup {Raise("ValueError")}

\* how detect_and_fix_shift can end in run_process
DetectOutcomes ==
    {DetectAndFixShift(f, 3, 5, 2, <<0, 1>>).ret :
        f \in {[i \in 1..n |-> PatternByte("ramp", i - 1)] : n \in {14, 15}}}

Outcomes(t) ==
    CASE t = "Binary To PNG" -> ConvertOutcomes
      [] t = "Shift Right Image" -> ShiftOutcomes
      [] t = "Detect & Fix Shift" -> DetectOutcomes

\* the try, else and except branches: the status set for the outcome o
RunProcessStatus(t, o) ==
    IF o.kind \notin {"return", "return_none"} THEN "Exception"
    ELSE IF t = "Shift Right Image" /\ o.code # 0 THEN "Error: return code"
    ELSE "Done"

\* the button re-enabled at the end of the try block instead of in finally
RunProcessNoFinally(o) ==
    IF o.kind \in {"return", "return_none"} THEN "normal" ELSE "disabled"

\* finally: self.start_button.config(state=tk.NORMAL), whatever the outcome
RunProcessFinally(o) == "normal"

InitGui ==
    /\ prog = "GUI"
    /\ pc = "mainloop"
    /\ start_button = [t \in Tabs |-> "normal"]
    /\ status_label = [t \in Tabs |-> "Ready"]
    /\ workers = [t \in Tabs |-> << >>]
    /\ img_width = 0 /\ img_height = 0
    /\ buf = << >> /\ file = << >> /\ orig = << >>
    /\ entry = "none"
    /\ shift_count = 0 /\ start_row = 0 /\ start_col = 0
    /\ oserror = FALSE
    /\ ret = NoReturn
    /\ stdout = << >>
    /\ calls = << >>
    /\ f1 = << >> /\ f2 = << >> /\ fpos1 = 0 /\ fpos2 = 0 /\ pos = 0
    /\ diff_start = << >>
    /\ raw = << >> /\ mode = "none" /\ headerfooter = FALSE /\ outputs = {}
    /\ good = << >> /\ dropped = 0 /\ patch = 0
    /\ scores = << >> /\ positions = << >> /\ best_idx = 0 /\ fixed = << >>

\* a click on the start button of tab t: Tk runs start_processing only when
\* the button is not disabled; filled says whether the required fields are
\* filled in
StartProcessing(t) ==
    /\ prog = "GUI"
    /\ start_button[t] = "normal"
    /\ Len(workers[t]) < MaxThreads
    /\ \E filled \in BOOLEAN :
          IF ~filled
          THEN /\ status_label' = [status_label EXCEPT ![t] = "Please fill"]
               /\ UNCHANGED <<start_button, workers>>
          ELSE /\ start_button' = [start_button EXCEPT ![t] = "disabled"]
               /\ status_label' = [status_label EXCEPT ![t] = "Processing..."]
               /\ workers' = [workers EXCEPT ![t] =
                      Append(@, [pc |-> "try", outcome |-> NoReturn])]
    /\ UNCHANGED <<prog, pc, ret, stdout>>
    /\ UNCHANGED <<shiftVars, diffVars, loadVars, fixVars, composeVars>>

\* a worker of tab t runs its operation and sets the status
WorkerRun(t) ==
    /\ prog = "GUI"
    /\ \E i \in 1..Len(workers[t]) :
          /\ workers[t][i].pc = "try"
          /\ \E o \in Outcomes(t) :
                /\ workers' = [workers EXCEPT ![t][i] =
                       [pc |-> "finally", outcome |-> o]]
                /\ status_label' =
                       [status_label EXCEPT ![t] = RunProcessStatus(t, o)]
    /\ UNCHANGED <<prog, pc, ret, stdout, start_button>>
    /\ UNCHANGED <<shiftVars, diffVars, loadVars, fixVars, composeVars>>

\* the worker's finally block; the thread ends after it
WorkerFinally(t) ==
    /\ prog = "GUI"
    /\ \E i \in 1..Len(workers[t]) :
          /\ workers[t][i].pc = "finally"
          /\ start_button' = [start_button EXCEPT ![t] =
                 RunProcessFinally(workers[t][i].outcome)]
          /\ workers' = [workers EXCEPT ![t] =
                 SubSeq(@, 1, i - 1) \o SubSeq(@, i + 1, Len(@))]
    /\ UNCHANGED <<prog, pc, ret, stdout, status_label>>
    /\ UNCHANGED <<shiftVars, diffVars, loadVars, fixVars, composeVars>>

NextGui ==
    \E t \in Tabs : StartProcessing(t) \/ WorkerRun(t) \/ WorkerFinally(t)

SpecGui == InitGui /\ [][NextGui]_vars

\* a started thread is scheduled until it ends
WorkersRun ==
    \A t \in Tabs : WF_vars(WorkerRun(t)) /\ WF_vars(WorkerFinally(t))

SpecGuiLive == SpecGui /\ WorkersRun

----------------------------------------------------------------------------
(* All programs together. *)

Init == InitShift \/ InitDiff \/ InitLoad \/ InitFix \/ InitDetect
            \/ InitCompose \/ InitGui

Next == NextShift \/ NextDiff \/ NextLoad \/ NextFix \/ NextDetect
            \/ NextCompose \/ NextGui

Spec == Init /\ [][Next]_vars

----------------------------------------------------------------------------
(* The region shifter's claims, checked under SpecShift. *)

\* the flat offset of the last call
Offset == start_row * img_width + start_col

\* the buffer or file the last call worked on, after the call
Target == IF entry = "shift_right_image_file" THEN file ELSE buf

Succeeded == pc = "done" /\ ret = Return(0)

\* buffer[offset, offset+shift_count) is zero and
\* buffer[offset+shift_count : end] = original[offset : end-shift_count]
RegionShifted ==
    /\ \A i \in Offset..(Offset + shift_count - 1) : Target[i + 1] = 0
    /\ \A i \in (Offset + shift_count)..(Len(Target) - 1) :
          Target[i + 1] = orig[i - shift_count + 1]

\* bytes before offset are unchanged and the length is width*height
PrefixKept ==
    /\ Len(Target) = img_width * img_height
    /\ Len(Target) = Len(orig)
    /\ \A i \in 0..(Offset - 1) : Target[i + 1] = orig[i + 1]

\* C1: after a successful shift_right the bytes at [offset, offset+shift_count)
\* are all zero and buffer[offset+shift_count : end] equals the original
\* buffer[offset : end-shift_count].
C1_ShiftContract == Succeeded => RegionShifted

\* a successful shift in the second row, past its first column, by two bytes,
\* that moved a non-zero byte
C1_Witness ==
    /\ Succeeded
    /\ start_row >= 1 /\ start_col >= 1 /\ shift_count = 2
    /\ Len(Target) > Offset + shift_count
    /\ Target[Offset + shift_count + 1] # 0

\* C2: a successful shift_right leaves every byte below offset unchanged and
\* the buffer length equal to width*height.
C2_PrefixUnchanged == Succeeded => PrefixKept

\* a successful shift that changed the buffer behind a non-zero prefix
C2_Witness ==
    /\ Succeeded
    /\ Offset >= 2
    /\ Target # orig
    /\ \E i \in 0..(Offset - 1) : orig[i + 1] # 0

\* the preconditions of shift_right on a buffer of width*height bytes
PreconditionViolated ==
    \/ shift_count < 1
    \/ start_row < 0 \/ start_row >= img_height
    \/ start_col < 0 \/ start_col >= img_width
    \/ shift_count > img_width * img_height - Offset

\* C3: on a buffer (or an existing file) of width*height bytes shift_right
\* fails exactly when shift_count < 1, start_row is outside [0, height),
\* start_col is outside [0, width) or shift_count exceeds
\* width*height - offset; for every other input it succeeds.
C3_FailsExactlyOnPrecondition ==
    (pc = "done" /\ Len(orig) = img_width * img_height /\ ~oserror)
        => /\ PreconditionViolated => ret = Return(1)
           /\ ~PreconditionViolated => ret = Return(0)

\* a call with valid start and a shift_count one more than the region holds
C3_Witness ==
    /\ pc = "done" /\ Len(orig) = img_width * img_height /\ ~oserror
    /\ start_row \in 0..(img_height - 1) /\ start_col \in 0..(img_width - 1)
    /\ Offset > 0
    /\ shift_count = img_width * img_height - Offset + 1
    /\ ret = Return(1)

\* C4: a shift is never partially applied: when the call fails the buffer and
\* the file are byte-for-byte what they were; otherwise the full shift
\* contract holds.
C4_NeverPartial ==
    pc = "done" =>
        IF ret = Return(0)
        THEN RegionShifted /\ PrefixKept
        ELSE buf = orig /\ file = orig

\* a failure for a shift_count exceeding the remaining region of a buffer that
\* holds non-zero bytes there
C4_Witness ==
    /\ pc = "done" /\ ret = Return(1)
    /\ Len(orig) = img_width * img_height
    /\ ~BadShiftCount(shift_count)
    /\ ~BadStart(start_row, start_col, img_width, img_height)
    /\ shift_count > img_width * img_height - Offset
    /\ orig[Offset + 1] # 0

----------------------------------------------------------------------------
(* The differ's claims, checked under SpecDiff. *)

\* the streams differ at index i (both hold a byte there)
DiffersAt(i) == f1[i + 1] # f2[i + 1]

\* the maximal runs of differing indices of two streams of equal length n
MaximalRuns(n) ==
    {r \in (0..(n - 1)) \X (0..(n - 1)) :
        /\ r[1] <= r[2]
        /\ \A i \in r[1]..r[2] : DiffersAt(i)
        /\ r[1] = 0 \/ ~DiffersAt(r[1] - 1)
        /\ r[2] = n - 1 \/ ~DiffersAt(r[2] + 1)}

\* the ranges printed so far, in order
Reported == SelectSeq(stdout, LAMBDA m : m.tag = "Difference")

ReportedSet == {<<Reported[k].a, Reported[k].b>> : k \in 1..Len(Reported)}

Ascending ==
    \A j, k \in 1..Len(Reported) : j < k => Reported[j].a < Reported[k].a

\* C6: for two streams of equal length the differ reports exactly the maximal
\* runs of differing indices, as inclusive 0-based (start, end) pairs in
\* ascending order; a range opens at the first differing byte and is reported
\* at the first matching byte after it or at the end of the stream; identical
\* streams give no range and [1,2,3,4] against [1,9,9,4] gives (1,2) alone.
C6_ExactMaximalRuns ==
    (prog = "diffBinImage" /\ Len(f1) = Len(f2)) =>
        /\ pc = "loop" =>
              \* pos bytes are compared: the runs closed by a matching byte
              \* are reported, the run that reaches pos - 1 is open
              /\ ReportedSet = {r \in MaximalRuns(Len(f1)) : r[2] + 1 < pos}
              /\ Len(Reported) = Cardinality(ReportedSet)
              /\ Ascending
              /\ diff_start # << >> <=> (pos > 0 /\ DiffersAt(pos - 1))
              /\ diff_start # << >> =>
                    /\ \A i \in diff_start[1]..(pos - 1) : DiffersAt(i)
                    /\ diff_start[1] = 0 \/ ~DiffersAt(diff_start[1] - 1)
        /\ pc \in {"tail", "done"} =>
              /\ ReportedSet = MaximalRuns(Len(f1))
              /\ Len(Reported) = Cardinality(ReportedSet)
              /\ Ascending
              /\ Len(stdout) = Len(Reported)
              /\ f1 = f2 => stdout = << >>
              /\ (f1 = <<1, 2, 3, 4>> /\ f2 = <<1, 9, 9, 4>>)
                    => stdout = <<Msg("Difference", 1, 2)>>

\* the differ is done with two streams of equal length that hold two runs, the
\* second one reaching the end of the stream
C6_Witness ==
    /\ prog = "diffBinImage" /\ pc = "done"
    /\ Len(f1) = Len(f2)
    /\ Len(Reported) = 2
    /\ Reported[1].a < Reported[1].b
    /\ Reported[2].b = Len(f1) - 1

\* C7: when one stream is longer the walk stops as soon as either stream is
\* exhausted (pos = the shorter length) and the longer stream is reported as
\* "is longer starting at byte pos".
C7_LongerReported ==
    (prog = "diffBinImage" /\ pc = "done" /\ Len(f1) # Len(f2)) =>
        /\ pos = Min(Len(f1), Len(f2))
        /\ \E k \in 1..Len(stdout) :
              stdout[k] = Msg(IF Len(f1) > Len(f2) THEN "file1 is longer"
                                                   ELSE "file2 is longer",
                              Min(Len(f1), Len(f2)), 0)

\* C8: the reported ranges are never empty and never overlap: start <= end,
\* and a later range starts after the end of the one before it, with an index
\* in between at which both streams hold the same byte.
C8_RangesDisjoint ==
    prog = "diffBinImage" =>
        /\ \A k \in 1..Len(Reported) :
              0 <= Reported[k].a /\ Reported[k].a <= Reported[k].b
        /\ \A k \in 1..(Len(Reported) - 1) :
              \E i \in (Reported[k].b + 1)..(Reported[k + 1].a - 1) :
                  /\ i < Len(f1) /\ i < Len(f2)
                  /\ f1[i + 1] = f2[i + 1]

\* the differ is done with streams of unequal length and two reported ranges
C8_Witness ==
    /\ prog = "diffBinImage" /\ pc = "done"
    /\ Len(f1) # Len(f2)
    /\ Len(Reported) = 2

----------------------------------------------------------------------------
(* The frame load's claims, checked under SpecLoad. *)

ExpectedSize == img_width * img_height

\* C9: the load normalizes the buffer to exactly width*height bytes for every
\* input length: a shorter input is kept as a prefix and padded with trailing
\* zero bytes, a longer input is cut to its first width*height bytes, an
\* exact-length input is unchanged.
C9_LoadNormalizes ==
    (prog = "BayerImageProcessor" /\ pc = "done") =>
        /\ Len(raw) = ExpectedSize
        /\ \A i \in 1..ExpectedSize :
              raw[i] = IF i <= Len(file) THEN file[i] ELSE 0
        /\ Len(file) = ExpectedSize => raw = file

\* a load of a short file with a non-zero last byte, and so with padding
C9_Witness ==
    /\ prog = "BayerImageProcessor" /\ pc = "done"
    /\ Len(file) > 0 /\ Len(file) < ExpectedSize - 1
    /\ file[Len(file)] # 0
    /\ raw[ExpectedSize] = 0

\* C10: a load that pads or truncates is told apart by its outcome (what it
\* printed, returned and wrote) from the load of the exact-length file that
\* holds the normalized buffer.
C10_NormalizationObservable ==
    (prog = "BayerImageProcessor" /\ pc = "done" /\ Len(file) # ExpectedSize) =>
        LET exact == ProcessBinFile(entry, raw, img_width, img_height, mode,
                                    headerfooter)
        IN  <<ret, stdout, outputs>> # <<exact.ret, exact.out, exact.outputs>>

----------------------------------------------------------------------------
(* The repair's claim, checked under SpecFix. *)

\* b is the frame F at every index but p, where it holds 0
RestoredExceptAt(b, F, p) ==
    /\ Len(b) = Len(F)
    /\ \A i \in 0..(Len(F) - 1) : b[i + 1] = IF i = p THEN 0 ELSE F[i + 1]

\* C5: for a frame F and an index p, let C be F with the byte at p deleted and
\* a zero byte appended; the repair of C at break_index = p (by
\* detect_and_fix_shift when it finds best_idx = p, or by shift_right with
\* shift_count = 1 at p) gives F at every index but p, where it gives 0.
C5_RepairRoundTrip ==
    (prog = "detectAndFixShift" /\ pc = "done") =>
        /\ entry = "shift_right_image_file" =>
              ret = Return(0) /\ RestoredExceptAt(file, good, dropped)
        /\ (entry = "detect_and_fix_shift" /\ ret = ReturnNone
                /\ best_idx = dropped) =>
              RestoredExceptAt(fixed, good, dropped)

\* detect_and_fix_shift found the break at the dropped byte, past the first
\* patch, where the frame held a non-zero byte, and changed the file's content
C5_Witness ==
    /\ prog = "detectAndFixShift" /\ pc = "done"
    /\ entry = "detect_and_fix_shift" /\ ret = ReturnNone
    /\ best_idx = dropped /\ dropped > 0
    /\ good[dropped + 1] # 0
    /\ fixed # file

----------------------------------------------------------------------------
(* The geometry claim, checked under SpecShift. *)

\* width*height = 0, no room for header and footer, or no room for the footer
BadGeometry(w, h) == w * h = 0 \/ h < 2 \/ w < FooterLen

\* C11: an operation on a frame whose geometry has width*height = 0,
\* height < 2 or width < 66 fails; it does not go on to work on the frame.
C11_GeometryRejected ==
    (prog \in {"shiftRightImage", "detectAndFixShift"} /\ pc = "done"
        /\ BadGeometry(img_width, img_height))
        => ret \notin {Return(0), ReturnNone}

----------------------------------------------------------------------------
(* The header and payload claims, checked under SpecLoad. *)

\* the text of header_footer.txt, when it was written
HeaderFooterText ==
    (CHOOSE o \in outputs : o.name = "header_footer.txt").text

HeaderFooterWritten ==
    /\ prog = "BayerImageProcessor" /\ pc = "done"
    /\ \E o \in outputs : o.name = "header_footer.txt"

\* C12: the analog gain is byte 8 of the header row, the raw integration time
\* is byte 9 + 256 * byte 10 (0..65535), and the milliseconds shown are
\* raw * 0.0104 to 3 decimals; bytes 0x10, 0x64, 0x00 give 16, 100 and 1.040.
C12_HeaderDecode ==
    HeaderFooterWritten =>
        LET t == HeaderFooterText
            th == 1000 * t.integration_time_ms.units
                      + t.integration_time_ms.thousandths
        IN  /\ t.analog_gain = raw[8 + 1]
            /\ t.integration_time = raw[9 + 1] + 256 * raw[10 + 1]
            /\ t.integration_time \in 0..65535
            /\ t.integration_time_ms.thousandths \in 0..999
            \* th / 1000 is the thousandth nearest to raw * 104 / 10000
            /\ 10 * th - 5 < 104 * t.integration_time
            /\ 104 * t.integration_time < 10 * th + 5
            /\ (raw[8 + 1] = 16 /\ raw[9 + 1] = 100 /\ raw[10 + 1] = 0) =>
                  /\ t.analog_gain = 16
                  /\ t.integration_time = 100
                  /\ t.integration_time_ms = [units |-> 1, thousandths |-> 40]

\* a header with a non-zero high byte of the integration time
C12_Witness ==
    /\ HeaderFooterWritten
    /\ raw[8 + 1] = 16 /\ raw[9 + 1] = 100 /\ raw[10 + 1] = 1
    /\ HeaderFooterText.integration_time = 356

\* the data of the plain png, when it was written
PngData == (CHOOSE o \in outputs : o.name = "png").data

PngWritten ==
    /\ prog = "BayerImageProcessor" /\ pc = "done"
    /\ \E o \in outputs : o.name = "png"

\* C13: the payload is exactly rows 1..height-2 of the frame, width*(height-2)
\* bytes; the header is read from row 0 and the footer is the first 66 bytes
\* of row height-1; no byte of the header or footer row is in the payload.
C13_PayloadView ==
    LET w == img_width
        h == img_height
    IN  /\ PngWritten =>
              /\ Len(PngData) = w * (h - 2)
              /\ \A i \in 0..(w * (h - 2) - 1) : PngData[i + 1] = raw[w + i + 1]
              \* the offsets the payload is read from: none in row 0 or h-1
              /\ \A i \in 0..(Len(PngData) - 1) :
                    (w + i) \div w \in 1..(h - 2)
        /\ HeaderFooterWritten =>
              /\ Len(HeaderFooterText.header) = HeaderLen
              /\ \A i \in 0..(HeaderLen - 1) :
                    HeaderFooterText.header[i + 1] = raw[i + 1]
              /\ Len(HeaderFooterText.footer) = Min(FooterLen, w)
              /\ \A i \in 0..(Min(FooterLen, w) - 1) :
                    HeaderFooterText.footer[i + 1] = raw[(h - 1) * w + i + 1]

\* a frame with rows longer than the footer, whose footer row is not blank,
\* written as png and as header/footer text
C13_Witness ==
    /\ PngWritten /\ HeaderFooterWritten
    /\ img_width > FooterLen
    /\ Len(HeaderFooterText.footer) = FooterLen
    /\ raw[img_height * img_width] # 0
    /\ raw[(img_height - 1) * img_width + 1] # raw[img_width + 1]

----------------------------------------------------------------------------
(* The detector's claims, checked under SpecDetect. *)

Detected == prog = "detectAndFixShift" /\ pc = "done"
                /\ entry = "detect_and_fix_shift"

\* C14: detect_and_fix_shift fails with the size-mismatch error whenever the
\* input is not exactly width*height bytes, shorter or longer, without
\* padding or truncating, and then writes no output file.
C14_SizeMismatchFails ==
    Detected =>
        /\ (Len(file) # img_width * img_height) =>
              /\ ret = SizeError
              /\ fixed = << >>
              /\ stdout = << >>
              /\ positions = << >> /\ scores = << >>
        /\ ret = SizeError => Len(file) # img_width * img_height
        /\ file = orig

\* a file one byte longer than the frame was refused
C14_Witness ==
    /\ Detected
    /\ Len(file) = img_width * img_height + 1
    /\ Len(Positions(img_width, img_height, patch)) >= 2
    /\ ret = SizeError

DetectSucceeded == Detected /\ ret = ReturnNone

\* the top-left corners row * width + col of the patches the two loops visit
ScannedCorners ==
    {r * img_width + c :
        r \in {x \in 0..(img_height - patch - 1) : x % patch = 0},
        c \in {x \in 0..(img_width - patch - 1) : x % patch = 0}}

\* |scores[i+1] - scores[i]| of the patches i and i+1 in scan order, i from 0
Jump(i) ==
    IF scores[i + 2] >= scores[i + 1] THEN scores[i + 2] - scores[i + 1]
    ELSE scores[i + 1] - scores[i + 2]

\* C15: best_idx = positions[i*], where diffs[i] = |scores[i+1] - scores[i]|
\* over consecutive patches in scan order (also across a patch-row boundary),
\* i* is the first index of the largest diff, and positions[i] is the flat
\* offset row*width + col of the top-left corner of patch i.
C15_BreakIndexIsFirstLargestJump ==
    DetectSucceeded =>
        /\ Len(positions) = Len(scores)
        /\ {positions[k] : k \in 1..Len(positions)} = ScannedCorners
        /\ \A k \in 1..(Len(positions) - 1) : positions[k] < positions[k + 1]
        /\ \E i \in 0..(Len(scores) - 2) :
              /\ best_idx = positions[i + 1]
              /\ \A j \in 0..(Len(scores) - 2) : Jump(j) <= Jump(i)
              /\ \A j \in 0..(i - 1) : Jump(j) < Jump(i)

\* the largest jump is between the last patch of a patch row and the first of
\* the next one, and a later pair jumps as much
C15_Witness ==
    /\ DetectSucceeded
    /\ \E i \in 1..(Len(positions) - 2) :
          /\ best_idx = positions[i + 1]
          /\ positions[i + 2] \div img_width > positions[i + 1] \div img_width
          /\ positions[i + 1] % img_width > 0
          /\ \E j \in (i + 1)..(Len(scores) - 2) : Jump(j) = Jump(i)

\* the column of the flat offset x, and its row
ColOf(x) == x % img_width
RowOf(x) == x \div img_width

\* C16: the detector scores every full patch: every patch column that starts
\* at a multiple of patch and fits in the width is scored, so that only a
\* band narrower than patch is left out (with width 4096 and patch 8, the
\* column starting at 4088 too).
C16_EveryFullPatchColumnScored ==
    DetectSucceeded =>
        \A c \in 0..(img_width - patch) :
            c % patch = 0 =>
                \E k \in 1..Len(positions) : ColOf(positions[k]) = c

\* the bytes of the patch with top-left corner x
PatchBytes(x) ==
    {(RowOf(x) + dr) * img_width + ColOf(x) + dc :
        dr \in 0..(patch - 1), dc \in 0..(patch - 1)}

\* C17: every scored patch lies inside the payload rows 1..height-2, with its
\* top-left corner on the R-tile grid of the payload (an even number of rows
\* below row 1 and an even column); no patch holds a byte of row 0 or of row
\* height-1, and no two patches overlap.
C17_PatchesInsidePayload ==
    DetectSucceeded =>
        /\ \A k \in 1..Len(positions) :
              /\ \A x \in PatchBytes(positions[k]) :
                    RowOf(x) \in 1..(img_height - 2)
              /\ (RowOf(positions[k]) - 1) % 2 = 0
              /\ ColOf(positions[k]) % 2 = 0
        /\ \A k, l \in 1..Len(positions) :
              k # l => PatchBytes(positions[k]) \cap PatchBytes(positions[l]) = {}

----------------------------------------------------------------------------
(* The repair against the region shifter, checked under SpecFix. *)

\* shift_image_region_numpy with shift_count = 1 at the row and column of bi,
\* on a copy of the frame b
ShiftOneAt(b, bi) ==
    ShiftImageRegionNumpy(b, img_width, img_height, 1,
                          bi \div img_width, bi % img_width)

\* C18: the repair step of detect_and_fix_shift gives, for every frame and
\* every break index in [0, width*height), the buffer that shift_right gives
\* with shift_count = 1, start_row = break_index // width and
\* start_col = break_index % width on a copy of the input.
C18_RepairIsShiftByOne ==
    (prog = "detectAndFixShift" /\ Len(file) = img_width * img_height) =>
        \* for the file of every call, before the call
        /\ pc = "ready" =>
              \A bi \in 0..(Len(file) - 1) :
                  LET shifted == ShiftOneAt(file, bi)
                  IN  /\ shifted.ret = Return(0)
                      /\ Repair(file, bi) = shifted.buf
        \* and for what the call wrote
        /\ (pc = "done" /\ entry = "detect_and_fix_shift"
                /\ ret = ReturnNone) =>
              fixed = ShiftOneAt(file, best_idx).buf

\* the detector repaired at a break index past the first patch, where the
\* file held a non-zero byte, and the bytes after it moved
C18_Witness ==
    /\ prog = "detectAndFixShift" /\ pc = "done"
    /\ entry = "detect_and_fix_shift" /\ ret = ReturnNone
    /\ best_idx > 0 /\ best_idx + 2 < Len(file)
    /\ file[best_idx + 1] # 0
    /\ fixed[best_idx + 1] = 0
    /\ fixed[best_idx + 2] = file[best_idx + 1]
    /\ fixed[best_idx + 3] # file[best_idx + 3]

----------------------------------------------------------------------------
(* The differ on streams of different lengths, checked under SpecDiff. *)

ShorterLen == Min(Len(f1), Len(f2))
LongerLen == Max(Len(f1), Len(f2))

LongerMessages ==
    SelectSeq(stdout, LAMBDA m : m.tag \in {"file1 is longer", "file2 is longer"})

----------------------------------------------------------------------------
(* The break index, checked under SpecDetect. *)

\* C20: the break index of the detector is a valid offset in the frame, the
\* top-left corner of a scored patch (row and column multiples of patch), and
\* never the position of the last patch in scan order; it may lie in the
\* header row. The one-byte repair at best_idx is then within bounds and the
\* output has exactly width*height bytes.
C20_BreakIndexInFrame ==
    DetectSucceeded =>
        /\ best_idx \in 0..(img_width * img_height - 1)
        /\ RowOf(best_idx) % patch = 0
        /\ ColOf(best_idx) % patch = 0
        /\ \E k \in 1..(Len(positions) - 1) : best_idx = positions[k]
        /\ best_idx # positions[Len(positions)]
        \* the repair: the zero is written inside the frame, the byte that was
        \* there moves up by one, and the length is kept
        /\ Len(fixed) = img_width * img_height
        /\ fixed[best_idx + 1] = 0
        /\ best_idx + 1 < Len(file) => fixed[best_idx + 2] = file[best_idx + 1]
        /\ \A i \in 0..(best_idx - 1) : fixed[i + 1] = file[i + 1]

\* a break index in the header row, past the first patch
C20_Witness ==
    /\ DetectSucceeded
    /\ RowOf(best_idx) = 0 /\ best_idx > 0
    /\ Len(positions) >= 4
    /\ fixed # file

----------------------------------------------------------------------------
(* Too few patches, checked under SpecDetect. *)

\* C21: when the geometry gives fewer than two scored patches (height <= patch,
\* width <= patch, or exactly one patch), detect_and_fix_shift ends in the
\* error of argmax over an empty diff sequence instead of giving a break
\* index, and writes no output file.
C21_TooFewPatchesFails ==
    (Detected /\ Len(file) = img_width * img_height) =>
        /\ Cardinality(ScannedCorners) < 2 =>
              /\ ret = ArgMaxError
              /\ fixed = << >>
              /\ stdout = << >>
        /\ (img_height <= patch \/ img_width <= patch) => ret = ArgMaxError
        /\ ret = ArgMaxError => Cardinality(ScannedCorners) < 2

\* a frame of the right size with exactly one patch was refused
C21_Witness ==
    /\ Detected
    /\ Len(file) = img_width * img_height
    /\ img_height > patch /\ img_width > patch
    /\ Len(scores) = 1
    /\ ret = ArgMaxError

----------------------------------------------------------------------------
(* Shifts at the same start, checked under SpecCompose. *)

RECURSIVE SumSeq(_)
SumSeq(q) == IF q = << >> THEN 0 ELSE q[1] + SumSeq(Tail(q))

\* C22: shifts at the same offset add up: for a, b >= 1 with
\* a + b <= width*height - offset, shift_right by a and then by b at the same
\* (start_row, start_col) gives the buffer of one shift_right by a + b; and a
\* shift by the whole remaining region leaves the region all zero.
C22_ShiftsCompose ==
    (prog = "shiftRightImage" /\ Len(calls) >= 1) =>
        LET total == SumSeq(calls)
            n == img_width * img_height
            once == ShiftImageRegionNumpy(orig, img_width, img_height, total,
                                          start_row, start_col)
        IN  /\ \A k \in 1..Len(calls) : calls[k] >= 1
            /\ total <= n - Offset =>
                  /\ once.ret = Return(0)
                  /\ buf = once.buf
                  /\ Len(buf) = n
                  /\ \A i \in 0..(Offset - 1) : buf[i + 1] = orig[i + 1]
                  /\ \A i \in Offset..(Offset + total - 1) : buf[i + 1] = 0
                  /\ \A i \in (Offset + total)..(n - 1) :
                        buf[i + 1] = orig[i - total + 1]
            /\ calls[1] = n - Offset =>
                  \A i \in Offset..(n - 1) : buf[i + 1] = 0

\* two shifts, not both by one, that leave bytes of the region in the buffer
C22_Witness ==
    /\ prog = "shiftRightImage" /\ Len(calls) = 2
    /\ calls[1] + calls[2] >= 3
    /\ calls[1] + calls[2] < img_width * img_height - Offset
    /\ Offset > 0
    /\ buf[Len(buf)] # 0
    /\ \A i \in Offset..(Offset + 2) : orig[i + 1] # 0

----------------------------------------------------------------------------
(* The GUI workers, checked under SpecGuiLive. *)

\* a tab has at most one worker, and its button is disabled while it has one
OneWorker(t) ==
    /\ Len(workers[t]) <= 1
    /\ workers[t] # << >> => start_button[t] = "disabled"

\* C23: every worker started by a tab's start_processing eventually re-enables
\* the tab's start button, whether the operation succeeds, returns a non-zero
\* code or raises; the button is disabled from the start of the worker until
\* then, so that a tab never has two workers at once.
C23_WorkerReenablesButton ==
    \A t \in Tabs :
        /\ [](prog = "GUI" => OneWorker(t))
        /\ (prog = "GUI" /\ workers[t] # << >>)
               ~> (workers[t] = << >> /\ start_button[t] = "normal")

\* the three kinds of outcome, each with its button enabled again while
\* another tab's worker is still running
C23_Witness ==
    /\ prog = "GUI"
    /\ status_label["Binary To PNG"] = "Exception"
    /\ start_button["Binary To PNG"] = "normal"
    /\ workers["Binary To PNG"] = << >>
    /\ status_label["Shift Right Image"] = "Error: return code"
    /\ start_button["Shift Right Image"] = "normal"
    /\ workers["Shift Right Image"] = << >>
    /\ status_label["Detect & Fix Shift"] = "Processing..."
    /\ start_button["Detect & Fix Shift"] = "disabled"
    /\ Len(workers["Detect & Fix Shift"]) = 1

----------------------------------------------------------------------------
(* The shifter's checks, checked under SpecShift. *)

Printed(tag) == \E k \in 1..Len(stdout) : stdout[k].tag = tag

StartInFrame ==
    /\ start_row \in 0..(img_height - 1)
    /\ start_col \in 0..(img_width - 1)

\* C24: in shift_image_region_numpy the check of the flat offset and the second
\* shift_count < 1 check never fail: when 0 <= start_row < height and
\* 0 <= start_col < width, offset = start_row*width + start_col is in
\* [0, width*height), so "Invalid offset" is never printed, and the only
\* failure after the row/col check is shift_count > width*height - offset.
C24_OffsetCheckNeverFails ==
    (prog = "shiftRightImage" /\ pc = "done") =>
        /\ ~Printed("Invalid offset")
        /\ StartInFrame => Offset \in 0..(img_width * img_height - 1)
        /\ Printed("Invalid shift_count for region size") =>
              /\ shift_count >= 1
              /\ StartInFrame
              /\ shift_count > img_width * img_height - Offset
        \* on a buffer of width*height bytes, past the first two checks
        /\ (shift_count >= 1 /\ StartInFrame /\ ~oserror
                /\ Len(orig) = img_width * img_height) =>
              \/ ret = Return(0)
              \/ /\ ret = Return(1)
                 /\ shift_count > img_width * img_height - Offset
                 /\ Printed("Invalid shift_count for region size")

\* shift_image_region_numpy called at the last byte of the frame, with a
\* shift_count of 2 for a region of 1
C24_Witness ==
    /\ prog = "shiftRightImage" /\ pc = "done"
    /\ entry = "shift_image_region_numpy"
    /\ img_width >= 2 /\ img_height >= 2
    /\ Offset = img_width * img_height - 1
    /\ start_row = img_height - 1 /\ start_col = img_width - 1
    /\ shift_count = 2
    /\ stdout = <<Msg("Invalid shift_count for region size", 2, 1)>>

====
